---------------------------- MODULE Spec2Model ----------------------------
(***************************************************************************)
(* A model of leveldb::Slice (include/leveldb/slice.h): a non-owning       *)
(* (address, length) view over bytes held in storage owned elsewhere.      *)
(*                                                                         *)
(* Memory is a finite array of bytes.  Addresses 0 .. MemLen-1 are a       *)
(* caller's buffer, address MemLen holds the buffer's terminating NUL, and *)
(* the two addresses after it hold the one-byte arrays of the string       *)
(* literals "" that Slice() and clear() point at (a build may give the two *)
(* literals one address or two: clear()'s is fixed, Slice()'s is either).  *)
(***************************************************************************)
EXTENDS Integers, Sequences, FiniteSets

\* ------------------------------------------------- sizes and storage ----

\* Bytes of the caller's buffer.
MemLen == 4

\* Concurrent reader threads.
NumReaders == 2

\* Bits of size_t in the model.  size_t is an unsigned type of
\* implementation-defined width; 16 is the least the C standard allows
\* (SIZE_MAX >= 65535).  Only the wrap-around of size_ -= n depends on it.
SizeBits == 16

SizeMod == 2 ^ SizeBits

\* Byte values, as unsigned char: NUL, 'a', and one value above 127 (which
\* is negative when read as a signed char).
Byte == {0, 97, 200}

BufAddr == 0 .. (MemLen - 1)

NulAddr == MemLen

\* The address of the "" literal in clear().
ClearLit == MemLen + 2

\* The addresses the "" literal in Slice() may have: its own, or clear()'s
\* when the build merges equal literals.
EmptyLits == {MemLen + 1, ClearLit}

Addr == 0 .. (MemLen + 2)

SliceId == {"a", "b"}

\* Threads: the writer and the readers.
Writer == 0

Readers == 1 .. NumReaders

Threads == {Writer} \cup Readers

VARIABLES
    Mem,      \* the external storage: Addr -> Byte; no Slice operation writes it
    NDEBUG,   \* TRUE when the build compiles assert() away
    slices,   \* SliceId -> [data_, size_]: the Slice objects
    ctor,     \* SliceId -> [data_, size_]: each object's window when constructed
    call,     \* the last completed sequential call: op, self, arg, pre, ret
    status,   \* "running" | "aborted" (assert failed) | "undefined" (UB executed)
    pc,       \* thread -> position inside its current call
    loc       \* thread -> the locals of its current call

vars == <<Mem, NDEBUG, slices, ctor, call, status, pc, loc>>

\* ------------------------------------------------- libc: memcmp, strlen --

MinOf(S) == CHOOSE x \in S : \A y \in S : x <= y

\* unsigned char read as signed char (two's complement).
SignedChar(c) == IF c >= 128 THEN c - 256 ELSE c

\* A memcmp that compares the bytes as signed char.
memcmp_signed(p, q, n) ==
    LET diff == {i \in 0 .. (n - 1) : Mem[p + i] # Mem[q + i]}
    IN  IF diff = {} THEN 0
        ELSE SignedChar(Mem[p + MinOf(diff)]) - SignedChar(Mem[q + MinOf(diff)])

\* memcmp(p, q, n): the sign of the result is the sign of the difference of
\* the first pair of differing bytes, both read as unsigned char; 0 when the
\* first n bytes agree (n = 0 included).  The value returned is that
\* difference, as the usual implementations return.
memcmp(p, q, n) ==
    LET diff == {i \in 0 .. (n - 1) : Mem[p + i] # Mem[q + i]}
    IN  IF diff = {} THEN 0
        ELSE Mem[p + MinOf(diff)] - Mem[q + MinOf(diff)]

RECURSIVE strlen(_)
\* strlen(s): the distance from s to the first NUL byte.
strlen(s) == IF Mem[s] = 0 THEN 0 ELSE 1 + strlen(s + 1)

\* ------------------------------------------------------- constructors ---

\* Slice() : data_(""), size_(0); lit is the address of that "".
SliceDefault(lit) == [data_ |-> lit, size_ |-> 0]

\* Slice(const char* d, size_t n) : data_(d), size_(n)
SlicePtrLen(d, n) == [data_ |-> d, size_ |-> n]

\* The caller's std::string: it owns the whole buffer (it may hold NULs).
TheString == [data |-> 0, size |-> MemLen]

\* Slice(const std::string& s) : data_(s.data()), size_(s.size())
SliceString(s) == [data_ |-> s.data, size_ |-> s.size]

\* Slice(const char* s) : data_(s), size_(strlen(s))
SliceCStr(s) == [data_ |-> s, size_ |-> strlen(s)]

\* ---------------------------------------------------- const methods -----

data(x) == x.data_

size(x) == x.size_

empty(x) == x.size_ = 0

\* operator[]'s REQUIRES: n < size()
At_REQUIRES(x, n) == n < size(x)

\* operator[](n): return data_[n].  Outside Mem the byte read is not defined
\* by the model's memory; the caller of At chooses it.
At(x, n) == Mem[x.data_ + n]

\* ToString(): std::string(data_, size_), a copy of the size_ bytes at data_.
ToString(x) == [i \in 1 .. x.size_ |-> Mem[x.data_ + i - 1]]

\* A starts_with that wants the prefix strictly shorter.
starts_with_strict(s, x) ==
    (s.size_ > x.size_) /\ (memcmp(s.data_, x.data_, x.size_) = 0)

\* starts_with(x): (size_ >= x.size_) && (memcmp(data_, x.data_, x.size_) == 0)
starts_with(s, x) ==
    (s.size_ >= x.size_) /\ (memcmp(s.data_, x.data_, x.size_) = 0)

\* Slice::compare(b)
compare(s, b) ==
    LET min_len == IF s.size_ < b.size_ THEN s.size_ ELSE b.size_
        r       == memcmp(s.data_, b.data_, min_len)
    IN  IF r = 0
        THEN IF s.size_ < b.size_ THEN -1
             ELSE IF s.size_ > b.size_ THEN 1
             ELSE r
        ELSE r

\* An operator== that compares the two addresses instead of the bytes.
OpEq_pointers(x, y) == (size(x) = size(y)) /\ (data(x) = data(y))

\* operator==(x, y): (x.size() == y.size()) && (memcmp(x.data(), y.data(), x.size()) == 0)
OpEq(x, y) == (size(x) = size(y)) /\ (memcmp(data(x), data(y), size(x)) = 0)

\* operator!=(x, y): !(x == y)
OpNe(x, y) == ~ OpEq(x, y)

\* ------------------------------------------------- non-const methods ----

\* A clear() that resets the address and forgets the length.
clear_keepsize(x, lit) == [data_ |-> lit, size_ |-> x.size_]

\* x.clear(): data_ = ""; size_ = 0; lit is the address of that "".
clear(x, lit) == [data_ |-> lit, size_ |-> 0]

\* remove_prefix's assert(n <= size()) dropped.
remove_prefix_REQUIRES_none(x, n) == TRUE

\* remove_prefix's REQUIRES: n <= size()
remove_prefix_REQUIRES(x, n) == n <= size(x)

\* A remove_prefix that shortens the window from the back.
remove_prefix_back(x, n) ==
    [data_ |-> x.data_, size_ |-> (x.size_ - n) % SizeMod]

\* A remove_prefix that advances the address and forgets the length.
remove_prefix_nosize(x, n) ==
    [data_ |-> x.data_ + n, size_ |-> x.size_]

\* A data_ += n whose sum is never stored.
remove_prefix_data_lost(x, n) == x

\* The first statement of remove_prefix(n): data_ += n
remove_prefix_data(x, n) == [x EXCEPT !.data_ = x.data_ + n]

\* The second statement of remove_prefix(n): size_ -= n (size_t arithmetic)
remove_prefix_size(x, n) == [x EXCEPT !.size_ = (x.size_ - n) % SizeMod]

\* remove_prefix(n): data_ += n; size_ -= n
remove_prefix(x, n) == remove_prefix_size(remove_prefix_data(x, n), n)

\* The two statements of clear(): data_ = ""; size_ = 0
clear_data(x, lit) == [x EXCEPT !.data_ = lit]

clear_size(x) == [x EXCEPT !.size_ = 0]

\* assert(cond): stops the program when cond is false, unless NDEBUG.
AssertFails(cond) == ~ NDEBUG /\ ~ cond

\* ---------------------------------------------------------- the state ---

NoCall ==
    [op |-> "none", self |-> "a", arg |-> 0, pre |-> slices, ret |-> 0, read |-> {}]

\* The windows a caller may construct: inside the buffer (the precondition
\* of every constructor: the bytes exist).
ValidWindows ==
    {w \in [data_ : 0 .. MemLen, size_ : 0 .. MemLen] : w.data_ + w.size_ <= MemLen}

Memories ==
    {m \in [Addr -> Byte] : \A p \in Addr \ BufAddr : m[p] = 0}

Idle == [t \in Threads |-> "idle"]

NoLocals == [t \in Threads |-> [op |-> "none"]]

\* --------------------------------------------- sequential use: Spec -----

Running == status = "running"

\* The record of a completed call: the object it was called on, its
\* argument, the objects before it, what it returned and the addresses of
\* the bytes it read.
Returned(op, self, arg, ret, read) ==
    call' = [op |-> op, self |-> self, arg |-> arg, pre |-> slices,
             ret |-> ret, read |-> read]

\* Slice y = x;  the copy constructor copies the two fields.
CopyConstruct(id, from) ==
    /\ Running
    /\ slices' = [slices EXCEPT ![id] = slices[from]]
    /\ ctor' = [ctor EXCEPT ![id] = slices[from]]
    /\ Returned("copy", id, 0, 0, {})
    /\ UNCHANGED <<Mem, NDEBUG, status, pc, loc>>

\* A clear() that also writes a NUL over the first byte it referred to.
Clear_writes(id) ==
    /\ Running
    /\ slices' = [slices EXCEPT ![id] = clear(slices[id], ClearLit)]
    /\ Mem' = [Mem EXCEPT ![slices[id].data_] = 0]
    /\ Returned("clear", id, 0, 0, {})
    /\ UNCHANGED <<NDEBUG, ctor, status, pc, loc>>

\* x.clear()
Clear(id) ==
    /\ Running
    /\ slices' = [slices EXCEPT ![id] = clear(slices[id], ClearLit)]
    /\ Returned("clear", id, 0, 0, {})
    /\ UNCHANGED <<Mem, NDEBUG, ctor, status, pc, loc>>

\* x.remove_prefix(n): the assert stops the program; without it the two
\* assignments run whatever n is, and a call with n > size() is undefined
\* behaviour: the model records the fields the assignments leave and stops.
RemovePrefix(id, n) ==
    /\ Running
    /\ IF AssertFails(remove_prefix_REQUIRES(slices[id], n))
       THEN /\ status' = "aborted"
            /\ UNCHANGED slices
       ELSE /\ slices' = [slices EXCEPT ![id] = remove_prefix(slices[id], n)]
            /\ status' = IF n <= size(slices[id]) THEN "running" ELSE "undefined"
    /\ Returned("remove_prefix", id, n, 0, {})
    /\ UNCHANGED <<Mem, NDEBUG, ctor, pc, loc>>

\* x[n]: the assert stops the program; without it data_[n] is read whatever
\* n is, and a read with n >= size() is undefined behaviour: any byte.
Index(id, n) ==
    /\ Running
    /\ IF AssertFails(At_REQUIRES(slices[id], n))
       THEN /\ status' = "aborted"
            /\ Returned("[]", id, n, -1, {})
       ELSE IF n < size(slices[id])
       THEN /\ status' = "running"
            /\ Returned("[]", id, n, At(slices[id], n), {slices[id].data_ + n})
       ELSE /\ status' = "undefined"
            /\ \E c \in Byte : Returned("[]", id, n, c, {slices[id].data_ + n})
    /\ UNCHANGED <<Mem, NDEBUG, slices, ctor, pc, loc>>

\* The objects a caller constructs: by each of the four constructors.
Constructed ==
    {SliceDefault(lit) : lit \in EmptyLits}
    \cup {SlicePtrLen(w.data_, w.size_) : w \in ValidWindows}
    \cup {SliceString(TheString)}
    \cup {SliceCStr(s) : s \in 0 .. MemLen}

\* Buffers that hold text: no NUL before the terminator.
TextMemories == {m \in Memories : \A p \in BufAddr : m[p] # 0}

\* Slice a(...) by any constructor; Slice b;
Init ==
    /\ Mem \in TextMemories
    /\ NDEBUG \in BOOLEAN
    /\ slices \in {f \in [SliceId -> Constructed] :
                     f["b"] \in {SliceDefault(lit) : lit \in EmptyLits}}
    /\ ctor = slices
    /\ call = NoCall
    /\ status = "running"
    /\ pc = Idle
    /\ loc = NoLocals

Next ==
    \/ CopyConstruct("b", "a")
    \/ \E id \in SliceId : Clear(id)
    \/ \E id \in SliceId, n \in 0 .. (MemLen + 1) : RemovePrefix(id, n)
    \/ \E id \in SliceId, n \in 0 .. MemLen : Index(id, n)

Spec == Init /\ [][Next]_vars

\* ------------------------------------------- claims on sequential use ---

\* The object the last call was made on, before and after it.
Before == call.pre[call.self]

After == slices[call.self]

\* The window [data_, data_ + size_) of x lies inside that of w and ends
\* where w ends.
SuffixWindow(x, w) ==
    /\ w.data_ <= x.data_
    /\ x.data_ + x.size_ = w.data_ + w.size_

\* C4: after remove_prefix(n) on a view of length L with n <= L the length
\* is L - n, the address is advanced by n, the end of the window is where it
\* was, and the bytes are the former bytes [n, L) in order; remove_prefix(0)
\* leaves the address and the length unchanged.
ShrinkLaw ==
    (call.op = "remove_prefix" /\ call.arg <= size(Before)) =>
        /\ status = "running"
        /\ size(After) = size(Before) - call.arg
        /\ data(After) = data(Before) + call.arg
        /\ data(After) + size(After) = data(Before) + size(Before)
        /\ ToString(After) = SubSeq(ToString(Before), call.arg + 1, size(Before))
        /\ (call.arg = 0 => After = Before)

\* A remove_prefix(n) with 0 < n < L has returned on a view whose dropped
\* bytes differ from the bytes kept.
ShrinkLawWitness ==
    /\ call.op = "remove_prefix"
    /\ 0 < call.arg
    /\ call.arg < size(Before)
    /\ ToString(After) # SubSeq(ToString(Before), 1, size(After))

\* C5: after clear(), in whatever state the view was, size() is 0, empty()
\* is true, and the view is == to, and compares 0 with, a default-constructed
\* view (wherever that view's "" lies).
ResetLaw ==
    call.op = "clear" =>
        /\ size(After) = 0
        /\ empty(After)
        /\ \A lit \in EmptyLits :
              /\ OpEq(After, SliceDefault(lit))
              /\ OpEq(SliceDefault(lit), After)
              /\ compare(After, SliceDefault(lit)) = 0
              /\ compare(SliceDefault(lit), After) = 0

\* clear() has returned on a view that was not empty and had been narrowed
\* before.
ResetLawWitness ==
    /\ call.op = "clear"
    /\ size(Before) > 0
    /\ Before # ctor[call.self]

\* C6: while every call respects its precondition, each view is empty or
\* covers a suffix of the window it covered when constructed, and no clear()
\* or remove_prefix(n) makes it longer, and no remove_prefix(n) moves its
\* start backwards.
NarrowOnly ==
    status # "undefined" =>
        /\ \A id \in SliceId :
              empty(slices[id]) \/ SuffixWindow(slices[id], ctor[id])
        /\ call.op \in {"clear", "remove_prefix"} =>
              size(After) <= size(Before)
        /\ call.op = "remove_prefix" =>
              /\ data(After) >= data(Before)
              /\ SuffixWindow(After, Before)

\* A view has been narrowed twice, to a proper, non-empty suffix of the
\* window it was constructed with.
NarrowOnlyWitness ==
    /\ call.op = "remove_prefix"
    /\ call.arg > 0
    /\ Before # ctor[call.self]
    /\ size(After) > 0
    /\ size(After) + call.arg < size(ctor[call.self])

\* C8: a clear() or remove_prefix(n) leaves the referenced bytes as they
\* were, and leaves every other view's address, length and content as they
\* were.
FrameEffect ==
    [][call'.op \in {"clear", "remove_prefix"} =>
         /\ Mem' = Mem
         /\ \A o \in SliceId \ {call'.self} :
               /\ slices'[o] = slices[o]
               /\ ToString(slices[o])' = ToString(slices[o])]_vars

\* b is a copy taken from a, and a has since been narrowed: b still is the
\* view a was.
FrameEffectWitness ==
    /\ call.op = "remove_prefix"
    /\ call.self = "a"
    /\ call.arg > 0
    /\ status = "running"
    /\ slices["b"] = call.pre["a"]
    /\ slices["b"] = call.pre["b"]
    /\ size(slices["b"]) > 0
    /\ slices["a"] # slices["b"]

\* C10: with assert() compiled in, a remove_prefix(n) with n > size() and an
\* operator[](n) with n >= size() stop the program with every view as it
\* was and no byte read; no call reads a byte outside the window of its
\* view, and no view has a length that wrapped around.
ChecksCatchViolations ==
    ~ NDEBUG =>
        /\ status # "undefined"
        /\ \A id \in SliceId : size(slices[id]) <= MemLen
        /\ (call.op = "remove_prefix" /\ call.arg > size(Before)) =>
              (status = "aborted" /\ slices = call.pre)
        /\ (call.op = "[]" /\ call.arg >= size(Before)) =>
              (status = "aborted" /\ slices = call.pre /\ call.read = {})
        /\ \A p \in call.read :
              data(Before) <= p /\ p < data(Before) + size(Before)

\* A remove_prefix(n) with n > size() on a view that is not empty has been
\* stopped by the assert.
ChecksCatchViolationsWitness ==
    /\ ~ NDEBUG
    /\ status = "aborted"
    /\ call.op = "remove_prefix"
    /\ call.arg > size(Before)
    /\ size(Before) > 0

\* ------------------------------------- comparisons: SpecPure ------------

\* x.compare(y)
Compare(x, y) ==
    /\ Running
    /\ Returned("compare", x, y, compare(slices[x], slices[y]), {})
    /\ UNCHANGED <<Mem, NDEBUG, slices, ctor, status, pc, loc>>

\* x == y
Equals(x, y) ==
    /\ Running
    /\ Returned("==", x, y, OpEq(slices[x], slices[y]), {})
    /\ UNCHANGED <<Mem, NDEBUG, slices, ctor, status, pc, loc>>

\* x != y
NotEquals(x, y) ==
    /\ Running
    /\ Returned("!=", x, y, OpNe(slices[x], slices[y]), {})
    /\ UNCHANGED <<Mem, NDEBUG, slices, ctor, status, pc, loc>>

\* x.starts_with(y)
StartsWith(x, y) ==
    /\ Running
    /\ Returned("starts_with", x, y, starts_with(slices[x], slices[y]), {})
    /\ UNCHANGED <<Mem, NDEBUG, slices, ctor, status, pc, loc>>

\* Any two views, each built by any constructor, over any buffer.
InitPure ==
    /\ Mem \in Memories
    /\ NDEBUG = FALSE
    /\ slices \in [SliceId -> Constructed]
    /\ ctor = slices
    /\ call = NoCall
    /\ status = "running"
    /\ pc = Idle
    /\ loc = NoLocals

NextPure ==
    \/ Compare("a", "b")
    \/ Equals("a", "b")
    \/ NotEquals("a", "b")
    \/ StartsWith("a", "b")

SpecPure == InitPure /\ [][NextPure]_vars

\* The bytes of the two operands of the last call, as sequences of unsigned
\* values.
BytesA == [i \in 1 .. slices["a"].size_ |-> Mem[slices["a"].data_ + i - 1]]

BytesB == [i \in 1 .. slices["b"].size_ |-> Mem[slices["b"].data_ + i - 1]]

\* s is a prefix of t.
IsPrefix(s, t) ==
    /\ Len(s) <= Len(t)
    /\ \A i \in 1 .. Len(s) : s[i] = t[i]

\* s precedes t in byte lexicographic order: at the first index where they
\* differ s has the smaller byte, or s is a strict prefix of t.
Precedes(s, t) ==
    \/ IsPrefix(s, t) /\ Len(s) < Len(t)
    \/ \E k \in 1 .. Len(s) :
          /\ k <= Len(t)
          /\ \A i \in 1 .. (k - 1) : s[i] = t[i]
          /\ s[k] < t[k]

\* C1: a.compare(b) is negative iff a precedes b in byte lexicographic order
\* (bytes as unsigned values), positive iff b precedes a, zero iff both have
\* the same length and bytes; of two views that agree on the shorter one's
\* length the shorter sorts first.
CompareIsLexicographic ==
    call.op = "compare" =>
        /\ (call.ret < 0) <=> Precedes(BytesA, BytesB)
        /\ (call.ret > 0) <=> Precedes(BytesB, BytesA)
        /\ (call.ret = 0) <=> (BytesA = BytesB)
        /\ (IsPrefix(BytesA, BytesB) /\ Len(BytesA) < Len(BytesB)) => call.ret < 0
        /\ (IsPrefix(BytesB, BytesA) /\ Len(BytesB) < Len(BytesA)) => call.ret > 0

\* compare has ordered two views at the first differing byte, a byte above
\* 127 after a byte below it, behind a common first byte.
CompareIsLexicographicWitness ==
    /\ call.op = "compare"
    /\ call.ret < 0
    /\ Len(BytesA) >= 2
    /\ Len(BytesB) >= 2
    /\ BytesA[1] = BytesB[1]
    /\ BytesA[2] = 97
    /\ BytesB[2] = 200

\* C2: a == b is true iff the lengths are equal and every byte matches, and
\* iff a.compare(b) is 0; a != b is true iff a == b is not.
EqualityLaw ==
    /\ call.op = "==" =>
          /\ call.ret <=> (Len(BytesA) = Len(BytesB) /\
                           \A i \in 1 .. Len(BytesA) : BytesA[i] = BytesB[i])
          /\ call.ret <=> (compare(slices["a"], slices["b"]) = 0)
    /\ call.op = "!=" =>
          /\ call.ret <=> ~ (Len(BytesA) = Len(BytesB) /\
                             \A i \in 1 .. Len(BytesA) : BytesA[i] = BytesB[i])
          /\ call.ret <=> ~ OpEq(slices["a"], slices["b"])

\* == has found two non-empty views at different addresses equal.
EqualityLawWitness ==
    /\ call.op = "=="
    /\ call.ret
    /\ size(slices["a"]) >= 2
    /\ data(slices["a"]) # data(slices["b"])

\* C3: a.starts_with(x) is true iff a is at least as long as x and a's first
\* x.size() bytes are x's; it is true for every a when x is empty, and false
\* when x is longer than a.
PrefixLaw ==
    call.op = "starts_with" =>
        /\ call.ret <=> (Len(BytesA) >= Len(BytesB) /\
                         \A i \in 1 .. Len(BytesB) : BytesA[i] = BytesB[i])
        /\ Len(BytesB) = 0 => call.ret
        /\ Len(BytesB) > Len(BytesA) => ~ call.ret

\* starts_with has found a non-empty, strictly shorter view at another
\* address to be a prefix.
PrefixLawWitness ==
    /\ call.op = "starts_with"
    /\ call.ret
    /\ 0 < size(slices["b"])
    /\ size(slices["b"]) < size(slices["a"])
    /\ data(slices["a"]) # data(slices["b"])

\* --------------------------- threads on one instance: a shared by all ---

\* The const methods a reader thread calls on a (b is the argument of the
\* binary ones).
ReadOps == {"data", "size", "empty", "[]", "ToString", "compare", "starts_with", "=="}

\* The indexes a reader passes to operator[]: the first byte, the last one.
ReadIndexes == {0, MemLen - 1}

\* The fields of a that a const method loads.
LoadsSize(op) == op # "data"

LoadsData(op) == op \notin {"size", "empty"}

\* The view a thread holds in its locals: the fields it has loaded.
Loaded(t) == [data_ |-> loc[t].d, size_ |-> loc[t].n]

\* The addresses of the bytes a const method reads of view x with argument y.
ReadsOf(op, x, y, i) ==
    CASE op = "[]"          -> {x.data_ + i}
      [] op = "ToString"    -> {x.data_ + k : k \in 0 .. (x.size_ - 1)}
      [] op = "compare"     ->
            LET min_len == IF x.size_ < y.size_ THEN x.size_ ELSE y.size_
            IN  {x.data_ + k : k \in 0 .. (min_len - 1)}
            \cup {y.data_ + k : k \in 0 .. (min_len - 1)}
      [] op = "starts_with" ->
            IF x.size_ >= y.size_
            THEN {x.data_ + k : k \in 0 .. (y.size_ - 1)}
                 \cup {y.data_ + k : k \in 0 .. (y.size_ - 1)}
            ELSE {}
      [] op = "=="          ->
            IF x.size_ = y.size_
            THEN {x.data_ + k : k \in 0 .. (x.size_ - 1)}
                 \cup {y.data_ + k : k \in 0 .. (x.size_ - 1)}
            ELSE {}
      [] OTHER              -> {}

\* What a const method returns on view x with argument y.
ReadResult(op, x, y, i) ==
    CASE op = "data"        -> data(x)
      [] op = "size"        -> size(x)
      [] op = "empty"       -> empty(x)
      [] op = "[]"          -> At(x, i)
      [] op = "ToString"    -> ToString(x)
      [] op = "compare"     -> compare(x, y)
      [] op = "starts_with" -> starts_with(x, y)
      [] op = "=="          -> OpEq(x, y)

\* Thread t calls a const method on a.
RBegin(t, op, i) ==
    /\ Running
    /\ pc[t] = "idle"
    /\ pc' = [pc EXCEPT ![t] = "loading"]
    /\ loc' = [loc EXCEPT ![t] = [op |-> op, i |-> i, d |-> -1, n |-> -1, ret |-> 0]]
    /\ UNCHANGED <<Mem, NDEBUG, slices, ctor, call, status>>

\* Thread t loads a.size_.  operator[] asserts on it; the other methods
\* load it before they load data_, ToString in either order.
LoadSize(t) ==
    /\ Running
    /\ pc[t] = "loading"
    /\ LoadsSize(loc[t].op)
    /\ loc[t].n = -1
    /\ loc' = [loc EXCEPT ![t].n = slices["a"].size_]
    /\ status' = IF loc[t].op = "[]" /\
                    AssertFails(At_REQUIRES(SlicePtrLen(-1, slices["a"].size_), loc[t].i))
                 THEN "aborted" ELSE "running"
    /\ UNCHANGED <<Mem, NDEBUG, slices, ctor, call, pc>>

\* A load of data_ that also moves a on by one byte.
LoadData_consumes(t) ==
    /\ Running
    /\ pc[t] = "loading"
    /\ LoadsData(loc[t].op)
    /\ loc[t].d = -1
    /\ loc' = [loc EXCEPT ![t].d = slices["a"].data_]
    /\ slices' = [slices EXCEPT !["a"] =
                     IF size(@) > 0 THEN remove_prefix(@, 1) ELSE @]
    /\ UNCHANGED <<Mem, NDEBUG, ctor, call, status, pc>>

\* Thread t loads a.data_: after size_ where the method's code orders the
\* two (and only if && has not short-circuited), ToString in either order.
LoadData(t) ==
    /\ Running
    /\ pc[t] = "loading"
    /\ LoadsData(loc[t].op)
    /\ loc[t].d = -1
    /\ \/ loc[t].op \in {"data", "ToString"}
       \/ loc[t].op \in {"[]", "compare"} /\ loc[t].n # -1
       \/ loc[t].op = "starts_with" /\ loc[t].n # -1 /\ loc[t].n >= size(slices["b"])
       \/ loc[t].op = "==" /\ loc[t].n # -1 /\ loc[t].n = size(slices["b"])
    /\ loc' = [loc EXCEPT ![t].d = slices["a"].data_]
    /\ UNCHANGED <<Mem, NDEBUG, slices, ctor, call, status, pc>>

\* Thread t has loaded what its method needs (or && has short-circuited on
\* the sizes): it reads the bytes and computes the result from the fields it
\* loaded.  Reading outside the storage is undefined behaviour.
Finish(t) ==
    /\ Running
    /\ pc[t] = "loading"
    /\ LoadsSize(loc[t].op) => loc[t].n # -1
    /\ \/ LoadsData(loc[t].op) => loc[t].d # -1
       \/ loc[t].op = "starts_with" /\ loc[t].n # -1 /\ loc[t].n < size(slices["b"])
       \/ loc[t].op = "==" /\ loc[t].n # -1 /\ loc[t].n # size(slices["b"])
    /\ IF ReadsOf(loc[t].op, Loaded(t), slices["b"], loc[t].i) \subseteq Addr
       THEN /\ loc' = [loc EXCEPT ![t].ret =
                          ReadResult(loc[t].op, Loaded(t), slices["b"], loc[t].i)]
            /\ pc' = [pc EXCEPT ![t] = "done"]
            /\ UNCHANGED status
       ELSE /\ status' = "undefined"
            /\ UNCHANGED <<pc, loc>>
    /\ UNCHANGED <<Mem, NDEBUG, slices, ctor, call>>

\* Thread t's call returns.
RReturn(t) ==
    /\ Running
    /\ pc[t] = "done"
    /\ pc' = [pc EXCEPT ![t] = "idle"]
    /\ loc' = [loc EXCEPT ![t] = [op |-> "none"]]
    /\ UNCHANGED <<Mem, NDEBUG, slices, ctor, call, status>>

Read(t) ==
    \/ \E op \in ReadOps \ {"[]"} : RBegin(t, op, 0)
    \/ \E i \in ReadIndexes : RBegin(t, "[]", i)
    \/ LoadSize(t)
    \/ LoadData(t)
    \/ Finish(t)
    \/ RReturn(t)

\* std::string s; Slice a(s); the threads share a.  The argument b of the
\* binary methods is a copy of a, or Slice b(s.data() + 1, s.size() - 1).
InitShared ==
    /\ Mem \in TextMemories
    /\ NDEBUG = FALSE
    /\ slices \in {f \in [SliceId -> Constructed] :
                     /\ f["a"] = SliceString(TheString)
                     /\ f["b"] \in {f["a"], SlicePtrLen(1, MemLen - 1)}}
    /\ ctor = slices
    /\ call = NoCall
    /\ status = "running"
    /\ pc = Idle
    /\ loc = NoLocals

NextReaders == \E t \in Readers : Read(t)

SpecReaders == InitShared /\ [][NextReaders]_vars

\* C7: while threads only call const methods on a, in any interleaving of
\* their loads, a's address and length and the bytes stay as they were, no
\* call fails, and every call returns what it returns when run alone on a.
ReadsReturnAsAlone ==
    /\ slices = ctor
    /\ status = "running"
    /\ \A t \in Readers :
          pc[t] = "done" =>
             loc[t].ret = ReadResult(loc[t].op, ctor["a"], ctor["b"], loc[t].i)

ConcurrentReadsSafe == [] ReadsReturnAsAlone /\ [][Mem' = Mem]_vars

\* One thread's ToString has returned the bytes while another thread's
\* compare, begun before that, stands between its two loads.
ConcurrentReadsSafeWitness ==
    /\ pc[1] = "done"
    /\ loc[1].op = "ToString"
    /\ Len(loc[1].ret) = MemLen
    /\ pc[2] = "loading"
    /\ loc[2].op = "compare"
    /\ loc[2].n # -1
    /\ loc[2].d = -1

\* ------------------- a writer and a reader on a, unsynchronized: SpecRace

\* The reader thread of the race.
TheReader == MinOf(Readers)

\* The writer calls a.remove_prefix(n): the assert, then the two statements
\* one at a time.  Nothing orders the two stores for another thread, so the
\* build may emit them in source order (data_ first) or the other way round.
\* The writer's locals keep a as it was when the call began.
WRemovePrefix(n) ==
    /\ Running
    /\ pc[Writer] = "idle"
    /\ IF AssertFails(remove_prefix_REQUIRES(slices["a"], n))
       THEN /\ status' = "aborted"
            /\ UNCHANGED <<pc, loc>>
       ELSE /\ pc' = [pc EXCEPT ![Writer] = "rp"]
            /\ loc' = [loc EXCEPT ![Writer] =
                          [op |-> "remove_prefix", n |-> n, pre |-> slices["a"]]]
            /\ UNCHANGED status
    /\ UNCHANGED <<Mem, NDEBUG, slices, ctor, call>>

\* The writer's position and locals after one of the two stores of a call:
\* the other store is pending, or the call returns.
AfterStore(first, pending) ==
    /\ pc' = [pc EXCEPT ![Writer] = IF pc[Writer] = first THEN pending ELSE "idle"]
    /\ loc' = [loc EXCEPT ![Writer] = IF pc[Writer] = first THEN @ ELSE [op |-> "none"]]

\* data_ += n
WStoreData ==
    /\ Running
    /\ pc[Writer] \in {"rp", "rp_data"}
    /\ slices' = [slices EXCEPT !["a"] = remove_prefix_data(@, loc[Writer].n)]
    /\ AfterStore("rp", "rp_size")
    /\ UNCHANGED <<Mem, NDEBUG, ctor, call, status>>

\* size_ -= n
WStoreSize ==
    /\ Running
    /\ pc[Writer] \in {"rp", "rp_size"}
    /\ slices' = [slices EXCEPT !["a"] = remove_prefix_size(@, loc[Writer].n)]
    /\ AfterStore("rp", "rp_data")
    /\ UNCHANGED <<Mem, NDEBUG, ctor, call, status>>

\* The writer calls a.clear().
WClear ==
    /\ Running
    /\ pc[Writer] = "idle"
    /\ pc' = [pc EXCEPT ![Writer] = "cl"]
    /\ loc' = [loc EXCEPT ![Writer] = [op |-> "clear", n |-> 0, pre |-> slices["a"]]]
    /\ UNCHANGED <<Mem, NDEBUG, slices, ctor, call, status>>

\* data_ = ""
WClearData ==
    /\ Running
    /\ pc[Writer] \in {"cl", "cl_data"}
    /\ slices' = [slices EXCEPT !["a"] = clear_data(@, ClearLit)]
    /\ AfterStore("cl", "cl_size")
    /\ UNCHANGED <<Mem, NDEBUG, ctor, call, status>>

\* size_ = 0
WClearSize ==
    /\ Running
    /\ pc[Writer] \in {"cl", "cl_size"}
    /\ slices' = [slices EXCEPT !["a"] = clear_size(@)]
    /\ AfterStore("cl", "cl_data")
    /\ UNCHANGED <<Mem, NDEBUG, ctor, call, status>>

NextRace ==
    \/ \E n \in 0 .. MemLen : WRemovePrefix(n)
    \/ WStoreData
    \/ WStoreSize
    \/ WClear
    \/ WClearData
    \/ WClearSize
    \/ Read(TheReader)

SpecRace == InitShared /\ [][NextRace]_vars

\* C9: when remove_prefix(n) has stored the address and not yet the length
\* (the two statements in source order), the instance holds the advanced
\* address with the old length; for n > 0 that pair is neither the view
\* before the call nor the view after it, and its window ends n bytes past
\* the end of the window before the call.
TornBetweenStores ==
    pc[Writer] = "rp_size" =>
        LET pre == loc[Writer].pre
            n   == loc[Writer].n
        IN  /\ slices["a"] = [data_ |-> pre.data_ + n, size_ |-> pre.size_]
            /\ n > 0 =>
                  /\ slices["a"] # pre
                  /\ slices["a"] # remove_prefix(pre, n)
                  /\ slices["a"].data_ + slices["a"].size_
                        = pre.data_ + pre.size_ + n

\* While the writer stands between the two statements of a remove_prefix(n)
\* with n > 0, the reader's ToString has loaded the advanced address and the
\* old length and has returned the bytes of that window, the last of them
\* from beyond the view.
TornBetweenStoresWitness ==
    /\ pc[Writer] = "rp_size"
    /\ loc[Writer].n > 0
    /\ pc[TheReader] = "done"
    /\ loc[TheReader].op = "ToString"
    /\ Loaded(TheReader) = [data_ |-> loc[Writer].pre.data_ + loc[Writer].n,
                            size_ |-> loc[Writer].pre.size_]
    /\ Loaded(TheReader) # loc[Writer].pre
    /\ Loaded(TheReader) # remove_prefix(loc[Writer].pre, loc[Writer].n)
    /\ Len(loc[TheReader].ret) = loc[Writer].pre.size_
    /\ loc[Writer].pre.size_ > 0

=============================================================================
